---- MODULE Spec2Model ----
(***************************************************************************)
(* Model of the debounced crate: Delayed (src/src/future.rs), a future     *)
(* that resolves to a value once a timer has elapsed, and Debounced        *)
(* (src/src/stream.rs), a stream adapter that keeps the most recent item   *)
(* of its upstream in a Delayed and yields it once the timer has elapsed.  *)
(*                                                                         *)
(* A call of poll_next or poll runs synchronously, so it is one action.    *)
(* Time is a discrete clock; the timer facility sets the `fired` flag of a *)
(* Delay at or after its deadline, never before.  The upstream is the mpsc *)
(* channel the crate's tests and documentation use: a queue, and a sender  *)
(* that can be dropped.                                                    *)
(***************************************************************************)
EXTENDS Integers, Sequences, FiniteSets

\* ---------------------------------------------------------------- bounds
MaxTime == 4
MaxItems == 2
MaxDelay == 2
MaxOut == 4
MaxPolls == 3

VARIABLES
    now,        \* the clock
    delay,      \* Debounced.delay
    fused,      \* whether the upstream stays completed once it has completed
    chan,       \* Debounced.stream: the items queued in the channel
    closed,     \* Debounced.stream: the sender has been dropped
    pending,    \* Debounced.pending: <<>> (None) or <<Delayed>> (Some)
    regUp,      \* the consumer's waker is registered with the upstream
    regTimer,   \* the consumer's waker is registered with pending's timer
    runnable,   \* the consumer task has been woken (or has not suspended)
    out,        \* what the consumer and the producer have recorded, in order
    last,       \* what the last poll_next call did
    calls,      \* flips at every poll_next call
    pc,         \* where a poll_next call followed step by step stands
    pushAt,     \* pushAt[i+1]: when item i was pushed
    setAt,      \* setAt[i+1]: when item i was taken from upstream and set pending
    upDone,     \* the upstream has reported completion
    doneWith,   \* the item that was pending when it first did so
    fut,        \* a Delayed awaited on its own: <<>> or <<Delayed>>
    futLog      \* the results of polling it

vars == <<now, delay, fused, chan, closed, pending, regUp, regTimer, runnable,
          out, last, calls, pc, pushAt, setAt, upDone, doneWith, fut, futLog>>

debounceVars == <<delay, fused, chan, closed, pending, regUp, regTimer,
                  runnable, out, last, calls, pc, pushAt, setAt, upDone,
                  doneWith>>

futVars == <<fut, futLog>>

\* ------------------------------------------------------------ Option<T>
None == <<>>

Some(x) == <<x>>

\* ------------------------------------------------------------- the timer
\* Mutant: the duration is ignored and the timer is due at once.
Delay_newZero(duration) == [at |-> now, fired |-> FALSE]

\* Delay::new(duration): a single-shot timer due `duration` from now.
Delay_new(duration) == [at |-> now + duration, fired |-> FALSE]

\* Mutant: the timer may elapse one tick before its deadline.
DelayDueEarly(sleep) == ~sleep.fired /\ now + 1 >= sleep.at

\* The timer facility may mark a Delay elapsed once its deadline has come.
DelayDue(sleep) == ~sleep.fired /\ now >= sleep.at

\* ---------------------------------------------------------------- Delayed
Delayed_new(value, duration) ==
    [sleep |-> Delay_new(duration), value |-> Some(value)]

delayed(value, duration) == Delayed_new(value, duration)

\* Mutant: the value is handed out without consulting the timer.
Delayed_pollNoWait(self) ==
    IF self.value = None
      THEN [res |-> "Panic", val |-> None, self |-> self]
      ELSE [res |-> "Ready", val |-> self.value,
            self |-> [self EXCEPT !.value = None]]

\* Mutant: the elapsed timer goes unnoticed.
Delayed_pollNever(self) == [res |-> "Pending", val |-> None, self |-> self]

\* Delayed::poll: the result, the value it resolved to, and the future after.
Delayed_poll(self) ==
    IF ~self.sleep.fired
      THEN [res |-> "Pending", val |-> None, self |-> self]
      ELSE IF self.value = None
        THEN [res |-> "Panic", val |-> None, self |-> self]
        ELSE [res |-> "Ready", val |-> self.value,
              self |-> [self EXCEPT !.value = None]]

\* --------------------------------------------------------------- Debounced
\* Mutant: an item already pending is kept and later items are dropped.
RECURSIVE DrainKeepFirst(_, _)
DrainKeepFirst(ch, pend) ==
    IF ch = <<>>
      THEN pend
      ELSE DrainKeepFirst(Tail(ch), IF pend # None THEN pend
                                    ELSE Some(delayed(Head(ch), delay)))

\* Mutant: a new item replaces the pending value but inherits its timer.
RECURSIVE DrainKeepTimer(_, _)
DrainKeepTimer(ch, pend) ==
    IF ch = <<>>
      THEN pend
      ELSE DrainKeepTimer(Tail(ch),
             IF pend # None
               THEN Some([delayed(Head(ch), delay) EXCEPT !.sleep = pend[1].sleep])
               ELSE Some(delayed(Head(ch), delay)))

\* Mutant: a pending value whose timer has elapsed is not replaced.
RECURSIVE DrainPreferFired(_, _)
DrainPreferFired(ch, pend) ==
    IF ch = <<>>
      THEN pend
      ELSE DrainPreferFired(Tail(ch),
             IF pend # None /\ pend[1].sleep.fired
               THEN pend
               ELSE Some(delayed(Head(ch), delay)))

\* Mutant: a call that finds no new item re-arms the pending value.
RECURSIVE DrainRearm(_, _)
DrainRearm(ch, pend) ==
    IF ch = <<>>
      THEN IF pend = None THEN pend
           ELSE Some(delayed(pend[1].value[1], delay))
      ELSE DrainRearm(Tail(ch), Some(delayed(Head(ch), delay)))

\* The drain loop of poll_next: every item the upstream has ready replaces
\* pending by a fresh Delayed.
RECURSIVE DrainPending(_, _)
DrainPending(ch, pend) ==
    IF ch = <<>>
      THEN pend
      ELSE DrainPending(Tail(ch), Some(delayed(Head(ch), delay)))

\* The upstream's answer once its queue is empty: the poll that ends the loop.
UpstreamEmptyPoll == IF closed THEN "None" ELSE "Pending"

\* Mutant: completion is forwarded even while a value is pending.
EndsEarlyAnyPending(upRes, pend) == upRes = "None"

\* Mutant: the early return is missing.
EndsEarlyNever(upRes, pend) == FALSE

\* Mutant: an empty pending slot ends the stream whatever the upstream said.
EndsEarlyAnyUpstream(upRes, pend) == pend = None

\* The loop returns Ready(None) when the upstream has completed and nothing
\* is pending.
EndsEarly(upRes, pend) == upRes = "None" /\ pend = None

\* Mutant: the resolved Delayed is left in the pending slot.
TakePendingKeep(p) == Some(p.self)

\* Mutant: the yielded value is armed again instead of being cleared.
TakePendingRearm(p) == Some(delayed(p.val[1], delay))

\* `let _ = self.pending.take()`: the slot after its Delayed has resolved.
TakePending(p) == None

ItemEvent(v, latest) == [k |-> "Item", v |-> v, at |-> now, latest |-> latest]

EndEvent(latest) == [k |-> "End", v |-> -1, at |-> now, latest |-> latest]

SenderEndedEvent == [k |-> "SenderEnded", v |-> -1, at |-> now, latest |-> -1]

Times(n) == [i \in 1..n |-> now]

\* Debounced::poll_next, the whole call.
PollNext ==
    LET taken   == Len(chan)
        drained == DrainPending(chan, pending)
        upRes   == UpstreamEmptyPoll
        latest  == Len(setAt) + taken - 1
        raced   == pending # None /\ pending[1].sleep.fired /\ chan # <<>>
        rec(ret, timer) == [ret |-> ret, taken |-> taken, up |-> upRes,
                            timer |-> timer, raced |-> raced,
                            again |-> upDone]
    IN
    /\ chan' = <<>>
    /\ calls' = 1 - calls
    /\ setAt' = setAt \o Times(taken)
    /\ upDone' = (upDone \/ upRes = "None")
    /\ doneWith' = IF ~upDone /\ upRes = "None" /\ drained # None
                     THEN drained[1].value ELSE doneWith
    /\ regUp' = (upRes = "Pending")
    /\ IF EndsEarly(upRes, drained)
         THEN /\ pending' = drained
              /\ out' = Append(out, EndEvent(latest))
              /\ last' = rec("End", "NotPolled")
              /\ regTimer' = FALSE
              /\ runnable' = TRUE
         ELSE IF drained = None
           THEN /\ pending' = drained
                /\ out' = out
                /\ last' = rec("Pending", "NotPolled")
                /\ regTimer' = FALSE
                /\ runnable' = FALSE
           ELSE LET p == Delayed_poll(drained[1]) IN
                IF p.res = "Ready"
                  THEN /\ pending' = TakePending(p)
                       /\ out' = Append(out, ItemEvent(p.val[1], latest))
                       /\ last' = rec("Item", "Ready")
                       /\ regTimer' = FALSE
                       /\ runnable' = TRUE
                  ELSE /\ pending' = Some(p.self)
                       /\ out' = out
                       /\ last' = rec(p.res, p.res)
                       /\ regTimer' = (p.res = "Pending")
                       /\ runnable' = FALSE
    /\ UNCHANGED <<now, delay, fused, closed, pc, pushAt, fut, futLog>>

\* The consumer asks for the next item (it may do so at any time).
Poll ==
    /\ Len(out) < MaxOut
    /\ PollNext

\* ------------------------------------------------------------ environment
\* sender.send(i): the producer pushes the next item.  An upstream that does
\* not stay completed takes items again after it has reported completion.
CanPush == ~closed \/ (~fused /\ upDone)

Send ==
    /\ CanPush
    /\ chan' = Append(chan, Len(pushAt))
    /\ pushAt' = Append(pushAt, now)
    /\ closed' = FALSE
    /\ regUp' = FALSE
    /\ runnable' = (runnable \/ regUp)
    /\ UNCHANGED <<now, delay, fused, pending, regTimer, out, last, calls,
                   pc, setAt, upDone, doneWith, fut, futLog>>

Push ==
    /\ Len(pushAt) < MaxItems
    /\ Send

\* drop(sender): the upstream completes once its queue is drained.
Close ==
    /\ ~closed
    /\ closed' = TRUE
    /\ out' = Append(out, SenderEndedEvent)
    /\ regUp' = FALSE
    /\ runnable' = (runnable \/ regUp)
    /\ UNCHANGED <<now, delay, fused, chan, pending, regTimer, last, calls,
                   pc, pushAt, setAt, upDone, doneWith, fut, futLog>>

\* The timer of the pending Delayed elapses and wakes the consumer.
TimerFire ==
    /\ pending # None
    /\ DelayDue(pending[1].sleep)
    /\ pending' = Some([pending[1] EXCEPT !.sleep.fired = TRUE])
    /\ regTimer' = FALSE
    /\ runnable' = (runnable \/ regTimer)
    /\ UNCHANGED <<now, delay, fused, chan, closed, regUp, out, last, calls,
                   pc, pushAt, setAt, upDone, doneWith, fut, futLog>>

Advance ==
    /\ now' = now + 1
    /\ UNCHANGED <<debounceVars, futVars>>

Tick ==
    /\ now < MaxTime
    /\ Advance

\* ------------------------------- poll_next over an upstream always ready
\* The same call followed one loop iteration at a time, for an upstream
\* that has an item ready at every poll; the clock and the timer run on
\* while the call is in its loop.

\* The consumer calls poll_next.
Enter ==
    /\ pc = "idle"
    /\ pc' = "drain"
    /\ calls' = 1 - calls
    /\ UNCHANGED <<now, delay, fused, chan, closed, pending, regUp, regTimer,
                   runnable, out, last, pushAt, setAt, upDone, doneWith, fut,
                   futLog>>

\* Mutant: the loop stops taking items once the pending timer has elapsed.
LoopContinuesUntilFired(r, pend) ==
    r.k = "Item" /\ ~(pend # None /\ pend[1].sleep.fired)

\* `while let Poll::Ready(next)` with the Some(next) arm: the loop goes round
\* again after every item, whatever the state of the pending timer.
LoopContinues(r, pend) == r.k = "Item"

\* One iteration of the loop, r being the upstream's answer.
LoopStep(r) ==
    /\ IF LoopContinues(r, pending)
         THEN /\ pending' = Some(delayed(r.v, delay))
              /\ pc' = "drain"
              /\ out' = out
         ELSE IF r.k = "None" /\ pending = None
           THEN /\ pending' = pending
                /\ pc' = "idle"
                /\ out' = Append(out, EndEvent(-1))
           ELSE /\ pending' = pending
                /\ pc' = "resolve"
                /\ out' = out
    /\ regTimer' = (regTimer /\ ~LoopContinues(r, pending))
    /\ UNCHANGED <<now, delay, fused, chan, closed, regUp, runnable, last,
                   calls, pushAt, setAt, upDone, doneWith, fut, futLog>>

\* An upstream that is ready with its next item at every poll.
AlwaysReady ==
    [k |-> "Item",
     v |-> IF pending = None THEN 0 ELSE (pending[1].value[1] + 1) % MaxItems]

LoopStarve ==
    /\ pc = "drain"
    /\ LoopStep(AlwaysReady)

\* ---------------------------------------------------- a Delayed on its own
NewEvent(v, d) == [k |-> "New", v |-> v, d |-> d, at |-> now]

PollEvent(p) ==
    [k |-> p.res, v |-> IF p.val = None THEN -1 ELSE p.val[1], d |-> -1,
     at |-> now]

\* delayed(v, d)
FutNew(v, d) ==
    /\ fut = None
    /\ futLog = <<>>
    /\ fut' = Some(delayed(v, d))
    /\ futLog' = <<NewEvent(v, d)>>
    /\ UNCHANGED <<now, debounceVars>>

\* One poll of the future, by an await or by hand.
FutPoll ==
    /\ fut # None
    /\ Len(futLog) <= MaxPolls
    /\ LET p == Delayed_poll(fut[1]) IN
         /\ fut' = Some(p.self)
         /\ futLog' = Append(futLog, PollEvent(p))
    /\ UNCHANGED <<now, debounceVars>>

\* The future's timer elapses.
FutTimerFire ==
    /\ fut # None
    /\ DelayDue(fut[1].sleep)
    /\ fut' = Some([fut[1] EXCEPT !.sleep.fired = TRUE])
    /\ UNCHANGED <<now, debounceVars, futLog>>

\* --------------------------------------------- the test_debounce_order run
WindowB == 100

StepB == 23

CountB == 10

\* sleep(23 * i) then send(i): item i is due 23 * i after the push before it.
DueB ==
    IF pushAt = <<>> THEN 0 ELSE pushAt[Len(pushAt)] + StepB * Len(pushAt)

ConsumerEnded == \E k \in 1..Len(out) : out[k].k = "End"

PushB ==
    /\ Len(pushAt) < CountB
    /\ now = DueB
    /\ Send

\* The producer's block ends after the last send, which drops the sender.
CloseB ==
    /\ Len(pushAt) = CountB
    /\ Close

\* `while let Some(value) = receiver.next().await`: polled when woken.
PollB ==
    /\ runnable
    /\ ~ConsumerEnded
    /\ PollNext

\* Time passes only when nothing is ready to run.
TickB ==
    /\ ~ConsumerEnded
    /\ ~runnable
    /\ ~(Len(pushAt) < CountB /\ now = DueB)
    /\ ~(Len(pushAt) = CountB /\ ~closed)
    /\ ~(pending # None /\ DelayDue(pending[1].sleep))
    /\ Advance

\* ------------------------------------------------------------------ Init
InitLast == [ret |-> "NotCalled", taken |-> 0, up |-> "Pending",
             timer |-> "NotPolled", raced |-> FALSE, again |-> FALSE]

InitWith(delays, fuseds) ==
    /\ now = 0
    /\ delay \in delays
    /\ fused \in fuseds
    /\ chan = <<>>
    /\ closed = FALSE
    /\ pending = None
    /\ regUp = FALSE
    /\ regTimer = FALSE
    /\ runnable = TRUE
    /\ out = <<>>
    /\ last = InitLast
    /\ calls = 0
    /\ pc = "idle"
    /\ pushAt = <<>>
    /\ setAt = <<>>
    /\ upDone = FALSE
    /\ doneWith = None
    /\ fut = None
    /\ futLog = <<>>

Init == InitWith(0..MaxDelay, {TRUE})

Next == Push \/ Close \/ Poll \/ TimerFire \/ Tick

Spec == Init /\ [][Next]_vars

\* Any upstream: one that may produce again after it has reported completion.
InitAnyStream == InitWith(0..MaxDelay, BOOLEAN)

SpecAnyStream == InitAnyStream /\ [][Next]_vars

\* The Delayed future on its own.
Values == 0..(MaxItems - 1)

NextDelayed ==
    \/ \E v \in Values, d \in 0..MaxDelay : FutNew(v, d)
    \/ FutPoll
    \/ FutTimerFire
    \/ Tick

SpecDelayed == Init /\ [][NextDelayed]_vars

\* The run of test_debounce_order.
InitB == InitWith({WindowB}, {TRUE})

NextB == PushB \/ CloseB \/ PollB \/ TimerFire \/ TickB

SpecB == InitB /\ [][NextB]_vars

\* poll_next over an upstream that is always ready.
NextStarve == Enter \/ LoopStarve \/ TimerFire \/ Tick

SpecStarve == Init /\ [][NextStarve]_vars

\* ------------------------------------------------------------ histories
IsItem(e) == e.k = "Item"

IsEnd(e) == e.k = "End"

Yielded == SelectSeq(out, IsItem)

HasEnd == \E k \in 1..Len(out) : IsEnd(out[k])

YieldedValues == {out[k].v : k \in {i \in 1..Len(out) : IsItem(out[i])}}

\* Every push so far came less than the window after the one before it.
Burst == \A i \in 1..(Len(pushAt) - 1) : pushAt[i + 1] - pushAt[i] < delay

LastPushed == Len(pushAt) - 1

\* C1: single flush per burst.  While the pushes so far form one burst, at
\* most one item has been yielded, it is the last one pushed, and it was
\* yielded no earlier than the window after its push; once the stream has
\* ended, exactly one item has been yielded.
C1_SingleFlushPerBurst ==
    Burst =>
      /\ Len(Yielded) <= 1
      /\ \A i \in 1..Len(Yielded) :
            /\ Yielded[i].v = LastPushed
            /\ Yielded[i].at >= pushAt[Yielded[i].v + 1] + delay
      /\ (HasEnd /\ pushAt # <<>>) => Len(Yielded) = 1

\* A burst of two items pushed and taken at different times, flushed once.
C1_Witness ==
    /\ Burst
    /\ Len(pushAt) = 2 /\ pushAt[1] < pushAt[2]
    /\ Len(setAt) = 2 /\ setAt[1] < setAt[2]
    /\ HasEnd
    /\ Len(Yielded) = 1 /\ Yielded[1].v = 1

\* C2: window restart on new arrival.  An item A that was pending when a
\* later item B was pushed before A's window had elapsed is never yielded,
\* and whatever is pending holds its own value with a timer due a full
\* window after that value was stored.
C2_WindowRestart ==
    /\ \A a \in 1..Len(setAt), b \in 1..Len(pushAt) :
          (a < b /\ pushAt[b] < setAt[a] + delay) => (a - 1) \notin YieldedValues
    /\ pending # None =>
          /\ pending[1].value = Some(Len(setAt) - 1)
          /\ pending[1].sleep.at = setAt[Len(setAt)] + delay

\* B was pushed while A was pending and has replaced it, with its own timer.
C2_Witness ==
    /\ Len(setAt) = 2 /\ setAt[1] < pushAt[2] /\ pushAt[2] < setAt[1] + delay
    /\ pending # None /\ pending[1].value = Some(1)
    /\ pending[1].sleep.at > setAt[1] + delay

\* C3: minimum quiet period.  Every yielded item was yielded at least the
\* window after it was set pending, and it was the newest item taken from
\* upstream at that moment.
C3_MinimumQuietPeriod ==
    \A k \in 1..Len(out) :
        IsItem(out[k]) =>
          /\ out[k].at >= setAt[out[k].v + 1] + delay
          /\ out[k].latest = out[k].v

\* An item yielded after a positive window, later than its deadline.
C3_Witness ==
    \E k \in 1..Len(out) :
        /\ IsItem(out[k]) /\ delay > 0
        /\ out[k].at > setAt[out[k].v + 1] + delay

\* C4: completion flushing.  If an item X was pending when upstream reported
\* completion, every End the consumer has observed comes after Item(X).
C4_CompletionFlushing ==
    \A k \in 1..Len(out) :
        (IsEnd(out[k]) /\ doneWith # None) =>
          \E j \in 1..(k - 1) : IsItem(out[j]) /\ out[j].v = doneWith[1]

\* Upstream completed with an item pending; the item, then End, were seen.
C4_Witness ==
    /\ doneWith # None
    /\ Len(out) >= 2
    /\ IsEnd(out[Len(out)])
    /\ IsItem(out[Len(out) - 1]) /\ out[Len(out) - 1].v = doneWith[1]

\* C5: a call in which upstream reports completion while nothing is pending
\* returns End in that same call, without polling a timer, yielding an item
\* or suspending.
C5_EndAtOnce ==
    [][(calls' # calls /\ closed /\ chan = <<>> /\ pending = None) =>
          /\ last'.ret = "End"
          /\ last'.up = "None"
          /\ last'.timer = "NotPolled"
          /\ out' = Append(out, EndEvent(Len(setAt) - 1))
          /\ pending' = None]_vars

\* The sender was dropped with nothing ever pushed, and the call said End.
C5_Witness ==
    /\ pushAt = <<>>
    /\ last.ret = "End" /\ last.up = "None" /\ last.taken = 0
    /\ Len(out) = 2 /\ IsEnd(out[2])

\* C7: quiescent upstream.  While upstream has produced nothing and has not
\* completed, nothing has been yielded, End has not been signalled, and
\* every call has returned suspended.
C7_QuiescentUpstream ==
    (pushAt = <<>> /\ ~closed) =>
      /\ out = <<>>
      /\ last.ret \in {"NotCalled", "Pending"}
      /\ pending = None

\* The consumer has polled a silent upstream after the window has passed.
C7_Witness ==
    /\ pushAt = <<>> /\ ~closed
    /\ last.ret = "Pending" /\ calls = 0
    /\ now > delay

\* C6: termination is permanent.  No item is yielded after End.
C6_TerminationPermanent ==
    \A i \in 1..Len(out), j \in 1..Len(out) :
        (i < j /\ IsEnd(out[i])) => ~IsItem(out[j])

Shape(o) == [i \in 1..Len(o) |-> <<o[i].k, o[i].v>>]

IsPrefix(a, b) == Len(a) <= Len(b) /\ \A i \in 1..Len(a) : a[i] = b[i]

ExpectedB ==
    << <<"Item", 4>>, <<"Item", 5>>, <<"Item", 6>>, <<"Item", 7>>,
       <<"Item", 8>>, <<"SenderEnded", -1>>, <<"Item", 9>>, <<"End", -1>> >>

\* C8: scenario B.  What the consumer and the producer record is, at every
\* moment, a prefix of Item(4), Item(5), Item(6), Item(7), Item(8), the
\* upstream closing, Item(9), End; once the consumer has ended, it is all of
\* it, and items 0..3 were never yielded.
C8_ScenarioB ==
    /\ IsPrefix(Shape(out), ExpectedB)
    /\ ConsumerEnded => Shape(out) = ExpectedB
    /\ YieldedValues \cap 0..3 = {}

\* The run has ended with all ten items pushed.
C8_Witness ==
    /\ Len(pushAt) = CountB
    /\ ConsumerEnded
    /\ Len(out) = Len(ExpectedB)

ReadyPolls == {i \in 1..Len(futLog) : futLog[i].k = "Ready"}

\* C9: delay correctness.  delayed(v, d) resolves at most once, to v, no
\* earlier than d after its creation; every poll before that moment returns
\* suspended, and until it has resolved the value stays in place.
C9_DelayCorrectness ==
    futLog # <<>> =>
      /\ futLog[1].k = "New"
      /\ Cardinality(ReadyPolls) <= 1
      /\ \A i \in ReadyPolls :
            /\ futLog[i].v = futLog[1].v
            /\ futLog[i].at >= futLog[1].at + futLog[1].d
            /\ \A j \in 2..(i - 1) : futLog[j].k = "Pending"
      /\ \A i \in 2..Len(futLog) :
            futLog[i].at < futLog[1].at + futLog[1].d => futLog[i].k = "Pending"
      /\ ReadyPolls = {} => fut[1].value = Some(futLog[1].v)

\* A future with a positive duration, polled too early, then resolved.
C9_Witness ==
    /\ Len(futLog) = 3
    /\ futLog[1].d = MaxDelay /\ futLog[1].v = 1 /\ futLog[1].at > 0
    /\ futLog[2].k = "Pending"
    /\ futLog[3].k = "Ready" /\ futLog[3].v = 1

\* C10: race resolution.  A call made while the pending timer has elapsed
\* unobserved and upstream has an item ready yields nothing: it takes the
\* upstream items first and leaves the newest one pending with a timer due
\* a full window from now.
C10_RaceResolution ==
    [][(calls' # calls /\ pending # None /\ pending[1].sleep.fired
          /\ chan # <<>>) =>
          /\ out' = out
          /\ last'.ret = "Pending"
          /\ last'.taken = Len(chan)
          /\ pending' = Some([sleep |-> [at |-> now + delay, fired |-> FALSE],
                              value |-> Some(chan[Len(chan)])])]_vars

\* Such a call has happened: the old item's timer had elapsed and it was
\* never yielded.
C10_Witness ==
    /\ last.raced
    /\ last.ret = "Pending"
    /\ pending # None /\ pending[1].value = Some(1)
    /\ 0 \notin YieldedValues

\* C11: most-recent-item invariant.  A non-empty pending slot holds exactly
\* the last item taken from upstream, and every yielded item was the last
\* item taken from upstream when it was yielded.
C11_MostRecentItem ==
    /\ pending # None =>
          /\ setAt # <<>>
          /\ pending[1].value = Some(Len(setAt) - 1)
    /\ \A k \in 1..Len(out) :
          IsItem(out[k]) => out[k].v = out[k].latest

\* Item 1 was yielded and had replaced item 0, which was pending before it.
C11_Witness ==
    /\ Len(setAt) = 2 /\ setAt[1] < setAt[2]
    /\ \E k \in 1..Len(out) : IsItem(out[k]) /\ out[k].v = 1
    /\ 0 \notin YieldedValues

\* C12 as stated: an item is not discarded by an item that arrives only
\* after its window has elapsed.  After a call that found the pending
\* item's timer elapsed and took newer items from upstream, the item that
\* was pending has been yielded if the next item was pushed after it was
\* set pending, a full window or more later.
C12_NoLossOfQuietItem ==
    last.raced =>
      LET a == Len(setAt) - last.taken IN
      (pushAt[a + 1] > setAt[a] /\ pushAt[a + 1] >= setAt[a] + delay)
        => (a - 1) \in YieldedValues

\* C12 as amended: a call made once the pending timer has elapsed, with no
\* newer item waiting in upstream, yields the pending item; and an item
\* taken from upstream is never lost otherwise: it has been yielded, is
\* still pending, or was replaced by a newer item taken after it.
C12_QuietItemYielded ==
    [][/\ (calls' # calls /\ pending # None /\ pending[1].sleep.fired
            /\ chan = <<>>) =>
            /\ out' = Append(out, ItemEvent(pending[1].value[1], Len(setAt) - 1))
            /\ pending' = None
       /\ \A a \in 1..Len(setAt') :
            \/ (a - 1) \in {out'[k].v : k \in {i \in 1..Len(out') : IsItem(out'[i])}}
            \/ pending' # None /\ pending'[1].value = Some(a - 1)
            \/ a < Len(setAt')]_vars

\* An item was yielded by a call made after its window, later than due,
\* with a later item pushed only after that.
C12_Witness ==
    /\ Len(Yielded) >= 1 /\ Yielded[1].v = 0
    /\ Yielded[1].at > setAt[1] + delay
    /\ Len(pushAt) = 2 /\ pushAt[2] >= Yielded[1].at

\* C13: at most one item per quiet period.  Two consecutive yielded items
\* are at least the window apart: the later one was set pending no earlier
\* than the call that yielded the earlier one.
C13_OnePerQuietPeriod ==
    \A i \in 1..(Len(Yielded) - 1) :
        /\ Yielded[i + 1].at - Yielded[i].at >= delay
        /\ setAt[Yielded[i + 1].v + 1] >= Yielded[i].at

\* Two items yielded one after the other with a positive window.
C13_Witness ==
    /\ delay > 0
    /\ Len(Yielded) = 2

\* C14: the upstream is never polled after it has reported completion.
\* Stated for the calls a consumer makes before it has been told End.
C14_NoPollAfterCompletion == ~HasEnd => ~last.again

\* C15: Debounced never polls a Delayed that has already resolved.  No call
\* has panicked on an empty value, and a Delayed in the pending slot still
\* holds its value.
C15_NoPollAfterResolve ==
    /\ last.ret # "Panic"
    /\ last.timer # "Panic"
    /\ pending # None => pending[1].value # None

\* Two timers have been observed elapsed, each clearing the slot.
C15_Witness ==
    /\ last.timer = "Ready"
    /\ pending = None
    /\ Len(Yielded) = 2

\* C16: timer starvation.  With an upstream that has an item ready at every
\* poll, a poll_next call stays in its drain loop: it never reaches the
\* timer poll, never returns and nothing is yielded, however long the pending
\* timers have elapsed.
C16_TimerStarvation ==
    /\ pc \in {"idle", "drain"}
    /\ pc = "idle" => calls = 0
    /\ out = <<>>
    /\ last.ret = "NotCalled"

\* The call is still draining at the end of time, over a pending value whose
\* timer has elapsed.
C16_Witness ==
    /\ pc = "drain"
    /\ now = MaxTime
    /\ pending # None /\ pending[1].sleep.fired
    /\ pending[1].value = Some(1)

\* C17: frame of an uneventful poll.  A call that finds no upstream item
\* and no elapsed timer leaves the pending value, its deadline and the
\* window as they were, also when upstream has completed.
C17_UneventfulPollFrame ==
    [][(calls' # calls /\ chan = <<>>
          /\ (pending = None \/ ~pending[1].sleep.fired)) =>
          /\ pending' = pending
          /\ delay' = delay
          /\ (pending # None => out' = out)]_vars

\* A repeated poll after upstream completed, later than the item was set
\* pending: the deadline is still the one set then.
C17_Witness ==
    /\ last.again /\ last.ret = "Pending" /\ last.taken = 0
    /\ pending # None /\ ~pending[1].sleep.fired
    /\ now > setAt[Len(setAt)]
    /\ pending[1].sleep.at = setAt[Len(setAt)] + delay

\* C18: no lost wake-up.  A call that returned suspended polled upstream to
\* not-ready or completion and, with a value pending, polled its timer to
\* not-elapsed; and while the consumer is suspended with no wake-up on its
\* way, upstream holds no item, an upstream completion has been seen, the
\* pending timer has not elapsed, and the consumer's waker is registered
\* with the upstream (unless it completed) and with the pending timer.
C18_NoLostWakeup ==
    /\ last.ret = "Pending" =>
          /\ last.up \in {"Pending", "None"}
          /\ (pending # None => last.timer = "Pending")
    /\ ~runnable =>
          /\ last.ret = "Pending"
          /\ chan = <<>>
          /\ (closed => upDone)
          /\ (~closed => regUp)
          /\ (pending # None => ~pending[1].sleep.fired /\ regTimer)

\* The consumer is suspended with a value pending and the upstream open.
C18_Witness ==
    /\ ~runnable
    /\ pending # None /\ regTimer /\ regUp
    /\ now >= pending[1].sleep.at

\* C19: the yielded items are an order-preserving subsequence of the items
\* upstream produced: every yielded value is one upstream produced and
\* Debounced took, no value is yielded twice, and values are yielded in the
\* order upstream produced them.
C19_OrderedSubsequence ==
    /\ \A i \in 1..Len(Yielded) :
          /\ Yielded[i].v \in 0..(Len(pushAt) - 1)
          /\ Yielded[i].v \in 0..(Len(setAt) - 1)
    /\ \A i \in 1..Len(Yielded), j \in 1..Len(Yielded) :
          i < j => Yielded[i].v < Yielded[j].v

\* Both items were yielded, in the order they were pushed.
C19_Witness ==
    /\ Len(pushAt) = 2
    /\ Len(Yielded) = 2
    /\ Yielded[1].v = 0 /\ Yielded[2].v = 1

====
